---- MODULE Spec2Model ----
(***************************************************************************)
(* Model of libtransmission/peer-mgr-wishlist.cc: the block request        *)
(* scheduler Wishlist::next(), with getCandidates(), Candidate::compare(), *)
(* cancelSlowRequest() and makeSpans().                                    *)
(*                                                                         *)
(* The mediator (piece and block accounting, active requests, modes), the  *)
(* peers' speeds, the clock and the salt buffer are the state; one call of *)
(* next() is a sequence of steps over a call frame.                        *)
(***************************************************************************)
EXTENDS Integers, Sequences, FiniteSets, TLC

(* ------------------------------ bounds -------------------------------- *)

\* pieces of the small torrents
MaxPieces == 3

\* blocks owned by each piece
BlocksPerPiece == 2

\* largest n_wanted_blocks a caller passes
MaxWanted == 5

\* pieces beyond the partial-sort horizon in the large torrents
HorizonExtra == 2

\* largest block index handed to the span packer on its own
MaxPackBlock == 7

\* candidates that may all draw the same salt
MaxTied == 3

(* ------------------------- program constants -------------------------- *)

\* auto constexpr MaxSortedPieces = size_t{ 30 }
MaxSortedPieces == 30

\* tr_block_info::BlockSize
BlockSize == 16384

(* ------------------------------ state --------------------------------- *)

VARIABLES
    nPieces,        \* mediator.countAllPieces()
    spanLen,        \* blocks in the span mediator.blockSpan(p) answers
    canPiece,       \* mediator.clientCanRequestPiece(p)
    missing,        \* mediator.countMissingBlocks(p)
    prio,           \* mediator.priority(p)
    canBlock,       \* mediator.clientCanRequestBlock(b)
    active,         \* mediator.getPeersForActiveRequests(b): <<[peer, when]>>
    sequential,     \* mediator.isSequentialDownload()
    fromPiece,      \* mediator.sequentialDownloadFromPiece()
    endgame,        \* mediator.isEndgame()
    speed,          \* peer->get_piece_speed_bytes_per_second(now, TR_PEER_TO_CLIENT)
    now,            \* tr_time()
    callers,        \* the peers ready to be handed requests
    pc,             \* position of the call
    nWanted,        \* n_wanted_blocks
    peer,           \* the peer next() was called for
    saltBuf,        \* the values tr_salt_shaker yields during this call
    candidates,     \* the candidate vector
    ci,             \* index of the candidate being mined (1-based)
    blk,            \* the block the inner loop is at
    blocks,         \* std::set<tr_block_index_t> blocks
    sorted_blocks,  \* blocks_v, the argument of makeSpans
    result,         \* the returned spans
    queries,        \* mediator queries made by the current call
    cancels,        \* cancellations issued by the current call: <<peer, block>>
    calls           \* calls of cancelSlowRequest made on its own

vars == <<nPieces, spanLen, canPiece, missing, prio, canBlock, active, sequential, fromPiece,
          endgame, speed, now, callers, pc, nWanted, peer, saltBuf, candidates, ci,
          blk, blocks, sorted_blocks, result, queries, cancels, calls>>

mediatorVars == <<nPieces, spanLen, canPiece, missing, prio, canBlock, sequential, fromPiece,
                  endgame, speed, now, callers>>

Peers == {"p1", "p2", "p3"}

NoPeer == "none"

(* ----------------------------- helpers -------------------------------- *)

Min(a, b) == IF a < b THEN a ELSE b

Range(s) == {s[i] : i \in 1..Len(s)}

MinOf(S) == CHOOSE x \in S : \A y \in S : x <= y

\* iteration of a std::set in ascending order
RECURSIVE SetToSortedSeq(_)
SetToSortedSeq(S) ==
    IF S = {} THEN <<>>
    ELSE <<MinOf(S)>> \o SetToSortedSeq(S \ {MinOf(S)})

\* every ordering of a finite set
RECURSIVE Orderings(_)
Orderings(S) ==
    IF S = {} THEN {<<>>}
    ELSE UNION {{<<x>> \o r : r \in Orderings(S \ {x})} : x \in S}

(* ----------------------------- mediator ------------------------------- *)

PieceIds(n) == 0..(n - 1)

BlockIds(n) == 0..(n * spanLen - 1)

\* mediator.blockSpan(piece): contiguous, disjoint, ordered with the piece index
blockSpan(piece) ==
    [begin |-> piece * spanLen, end |-> (piece + 1) * spanLen]

\* mediator.countActiveRequests(block)
countActiveRequests(act, block) == Len(act[block])

\* tr_cancelRequestForBlock(current_peer, block)
tr_cancelRequestForBlock(act, current_peer, block) ==
    [act EXCEPT ![block] = SelectSeq(@, LAMBDA e : e.peer # current_peer)]

(* ------------------------- Candidate::compare ------------------------- *)

\* the comparison preferring the lower priority
compareLowPriorityFirst(this, that) ==
    IF this.n_blocks_missing # that.n_blocks_missing
    THEN (IF this.n_blocks_missing < that.n_blocks_missing THEN -1 ELSE 1)
    ELSE IF this.priority # that.priority
    THEN (IF this.priority < that.priority THEN -1 ELSE 1)
    ELSE IF this.salt # that.salt
    THEN (IF this.salt < that.salt THEN -1 ELSE 1)
    ELSE 0

\* int Candidate::compare(Candidate const& that) const
compare(this, that) ==
    IF this.n_blocks_missing # that.n_blocks_missing
    THEN (IF this.n_blocks_missing < that.n_blocks_missing THEN -1 ELSE 1)
    ELSE IF this.priority # that.priority
    THEN (IF this.priority > that.priority THEN -1 ELSE 1)
    ELSE IF this.salt # that.salt
    THEN (IF this.salt < that.salt THEN -1 ELSE 1)
    ELSE 0

\* Candidate::operator<
Less(this, that) == compare(this, that) < 0

(* --------------------------- getCandidates ---------------------------- *)

\* the test without the check of n_missing
IsWantedAnyMissing(i) == canPiece[i]

\* the test that keeps piece i in wanted_pieces
IsWanted(i) == canPiece[i] /\ missing[i] # 0

\* the loop leaving out the last piece
RECURSIVE WantedPiecesShort(_)
WantedPiecesShort(i) ==
    IF i >= nPieces - 1 THEN <<>>
    ELSE IF IsWanted(i) THEN <<<<i, missing[i]>>>> \o WantedPiecesShort(i + 1)
    ELSE WantedPiecesShort(i + 1)

\* wanted_pieces: <<piece, n_missing>> for i = from .. n_pieces - 1
RECURSIVE WantedPieces(_)
WantedPieces(i) ==
    IF i >= nPieces THEN <<>>
    ELSE IF IsWanted(i) THEN <<<<i, missing[i]>>>> \o WantedPieces(i + 1)
    ELSE WantedPieces(i + 1)

\* the condition under which wanted_pieces is rotated
ShouldRotate(is_sequential, sequential_from_piece, n) ==
    is_sequential /\ sequential_from_piece > 0 /\ sequential_from_piece < n

\* a rotation to the right
RotateRight(w, k) == SubSeq(w, Len(w) - k + 1, Len(w)) \o SubSeq(w, 1, Len(w) - k)

\* std::rotate(begin, begin + k, end)
Rotate(w, k) == SubSeq(w, k + 1, Len(w)) \o SubSeq(w, 1, k)

\* wanted_pieces after the rotation step
RotatedWanted ==
    LET w == WantedPieces(0)
    IN  IF ShouldRotate(sequential, fromPiece, Len(w)) THEN Rotate(w, fromPiece) ELSE w

\* the candidate built from wanted_pieces[i], with the i-th draw of the salter
MakeCandidate(w, i, salts) ==
    [piece |-> w[i][1],
     n_blocks_missing |-> w[i][2],
     priority |-> prio[w[i][1]],
     salt |-> IF sequential THEN w[i][1] ELSE salts[i]]

getCandidates(salts) ==
    LET w == RotatedWanted
    IN  [i \in 1..Len(w) |-> MakeCandidate(w, i, salts)]

\* the streams the salter may yield for n draws
SaltStreams(n) ==
    {[i \in 1..n |-> (i - 1) % (MaxSortedPieces + 1)],
     [i \in 1..n |-> (n - i) % (MaxSortedPieces + 1)]}
    \cup (IF n <= MaxTied THEN {[i \in 1..n |-> 0]} ELSE {})

(* ------------------------- std::partial_sort -------------------------- *)

\* the horizon one element short
MiddleShort(n) == IF n = 0 THEN 0 ELSE Min(n, MaxSortedPieces) - 1

\* middle = std::min(std::size(candidates), MaxSortedPieces)
Middle(n) == Min(n, MaxSortedPieces)

\* the elements of S no other element of S is less than
Minimal(S) == {c \in S : \A d \in S : ~Less(d, c)}

\* the sorted prefixes of length k partial_sort may leave
RECURSIVE SortedPrefixes(_, _)
SortedPrefixes(S, k) ==
    IF k = 0 THEN {<<>>}
    ELSE UNION {{<<m>> \o r : r \in SortedPrefixes(S \ {m}, k - 1)} : m \in Minimal(S)}

\* the vectors partial_sort(begin, begin + middle, end) may leave: the middle
\* least elements in order, the rest in any order
PartialSortOutcomes(c, middle) ==
    UNION {{p \o r : r \in Orderings(Range(c) \ Range(p))} :
           p \in SortedPrefixes(Range(c), middle)}

(* ------------------------ cancelSlowRequest --------------------------- *)

\* The operands of the score are 64 bits wide and its result is stored in an
\* int, which keeps the low 32 bits. Those bits are computed here on words of
\* two 16-bit halves; speeds and ages are below 2^31 and when <= now.

\* the low 32 bits of x >= 0
ToU32(x) == [hi |-> (x \div 65536) % 65536, lo |-> x % 65536]

\* x + y on 32-bit words
AddU32(x, y) ==
    LET lo == x.lo + y.lo
    IN  [hi |-> (x.hi + y.hi + (lo \div 65536)) % 65536, lo |-> lo % 65536]

\* x - y on 32-bit words
SubU32(x, y) ==
    LET lo == x.lo - y.lo
    IN  [hi |-> (x.hi - y.hi - (IF lo < 0 THEN 1 ELSE 0)) % 65536, lo |-> lo % 65536]

\* x * k on 32-bit words, k >= 0
RECURSIVE MulU32(_, _)
MulU32(x, k) ==
    IF k = 0 THEN ToU32(0)
    ELSE LET h == MulU32(x, k \div 2)
             d == AddU32(h, h)
         IN  IF k % 2 = 1 THEN AddU32(d, x) ELSE d

\* the value an int holds after it is assigned the word x
ToInt(x) == IF x.hi >= 32768 THEN (x.hi - 65536) * 65536 + x.lo ELSE x.hi * 65536 + x.lo

\* the low 32 bits of ((now - when) * peer_speed) / tr_block_info::BlockSize,
\* from age = a1 * BlockSize + a0 and peer_speed = v1 * BlockSize + v0
BlocksDue(age, peer_speed) ==
    LET a1 == age \div BlockSize
        a0 == age % BlockSize
        v1 == peer_speed \div BlockSize
        v0 == peer_speed % BlockSize
    IN  AddU32(AddU32(MulU32(ToU32(peer_speed), a1), ToU32(a0 * v1)),
               ToU32((a0 * v0) \div BlockSize))

\* int res = (peer_speed / current_peer_speed)
\*           - (((now - when) * peer_speed) / tr_block_info::BlockSize)
Score(peer_speed, current_peer_speed, t, when) ==
    ToInt(SubU32(ToU32(peer_speed \div current_peer_speed),
                 BlocksDue(t - when, peer_speed)))

\* bool is_slow = res > 1.5, res an int
IsSlow(res) == res >= 2

\* the loop without the return after a cancellation
RECURSIVE SlowWalkNoReturn(_, _, _)
SlowWalkNoReturn(peers, i, peer_speed) ==
    IF i > Len(peers) THEN <<>>
    ELSE IF speed[peers[i].peer] = 0 THEN SlowWalkNoReturn(peers, i + 1, peer_speed)
    ELSE IF IsSlow(Score(peer_speed, speed[peers[i].peer], now, peers[i].when))
    THEN <<peers[i].peer>> \o SlowWalkNoReturn(peers, i + 1, peer_speed)
    ELSE SlowWalkNoReturn(peers, i + 1, peer_speed)

\* the loop leaving at a holder of speed zero instead of going on
RECURSIVE SlowWalkStopAtZero(_, _, _)
SlowWalkStopAtZero(peers, i, peer_speed) ==
    IF i > Len(peers) THEN <<>>
    ELSE IF speed[peers[i].peer] = 0 THEN <<>>
    ELSE IF IsSlow(Score(peer_speed, speed[peers[i].peer], now, peers[i].when))
    THEN <<peers[i].peer>>
    ELSE SlowWalkStopAtZero(peers, i + 1, peer_speed)

\* the loop over peers from index i: the holders it cancels, in order (it
\* returns at the first one)
RECURSIVE SlowWalk(_, _, _)
SlowWalk(peers, i, peer_speed) ==
    IF i > Len(peers) THEN <<>>
    ELSE IF speed[peers[i].peer] = 0 THEN SlowWalk(peers, i + 1, peer_speed)
    ELSE IF IsSlow(Score(peer_speed, speed[peers[i].peer], now, peers[i].when))
    THEN <<peers[i].peer>>
    ELSE SlowWalk(peers, i + 1, peer_speed)

\* cancelSlowRequest(mediator, block, peer): the holders whose request it cancels
cancelSlowRequest(act, block, p) ==
    IF speed[p] = 0 THEN <<>> ELSE SlowWalk(act[block], 1, speed[p])

\* the active requests after the cancellations of one call of cancelSlowRequest
RECURSIVE Cancelled(_, _, _)
Cancelled(act, victims, block) ==
    IF victims = <<>> THEN act
    ELSE Cancelled(tr_cancelRequestForBlock(act, Head(victims), block), Tail(victims), block)

\* the cancellations of one call, as <<peer, block>>
Issued(victims, block) == [i \in 1..Len(victims) |-> <<victims[i], block>>]

(* ----------------------------- makeSpans ------------------------------ *)

\* the loop without the push of the last open span
RECURSIVE SpanLoopNoLast(_, _, _, _)
SpanLoopNoLast(sb, i, cur, spans) ==
    IF i > Len(sb) THEN spans
    ELSE IF cur.end = sb[i]
    THEN SpanLoopNoLast(sb, i + 1, [cur EXCEPT !.end = @ + 1], spans)
    ELSE SpanLoopNoLast(sb, i + 1, [begin |-> sb[i], end |-> sb[i] + 1], Append(spans, cur))

\* the loop of makeSpans from index i, with the span cur open
RECURSIVE SpanLoop(_, _, _, _)
SpanLoop(sb, i, cur, spans) ==
    IF i > Len(sb) THEN Append(spans, cur)
    ELSE IF cur.end = sb[i]
    THEN SpanLoop(sb, i + 1, [cur EXCEPT !.end = @ + 1], spans)
    ELSE SpanLoop(sb, i + 1, [begin |-> sb[i], end |-> sb[i] + 1], Append(spans, cur))

\* one span per block, adjacent runs not merged
makeSpansUnmerged(sb) == [i \in 1..Len(sb) |-> [begin |-> sb[i], end |-> sb[i] + 1]]

makeSpans(sb) ==
    IF Len(sb) = 0 THEN <<>>
    ELSE SpanLoop(sb, 2, [begin |-> sb[1], end |-> sb[1] + 1], <<>>)

(* --------------------------- Wishlist::next --------------------------- *)

\* no early return
EarlyReturnNever(n) == FALSE

\* if (n_wanted_blocks == 0) return {}
EarlyReturn(n) == n = 0

\* the bound test off by one: one block more than wanted passes
HaveEnoughLate(bs, n) == Cardinality(bs) > n

\* std::size(blocks) >= n_wanted_blocks
HaveEnough(bs, n) == Cardinality(bs) >= n

\* the endgame limit applied in every mode
MaxPeersAlwaysTwo(is_endgame) == 2

\* max_peers = mediator_.isEndgame() ? 2 : 1
MaxPeers(is_endgame) == IF is_endgame THEN 2 ELSE 1

\* the count read before the preemption, used again after it
RecountStale(before, after, block) == countActiveRequests(before, block)

\* size_t const n_peers = mediator_.countActiveRequests(block), read after the
\* preemption
Recount(before, after, block) == countActiveRequests(after, block)

\* the preemption entered in every mode
PreemptsAnyMode(is_sequential, n_active) == n_active > 0

\* whether the block is preempted before the duplication check
Preempts(is_sequential, n_active) == is_sequential /\ n_active > 0

(* ------------------------------ actions ------------------------------- *)

\* the mediator queries getCandidates and line 184 make
CandidateQueries ==
    {"countAllPieces", "isSequentialDownload", "sequentialDownloadFromPiece"}
    \cup (IF nPieces > 0 THEN {"clientCanRequestPiece"} ELSE {})
    \cup (IF \E i \in PieceIds(nPieces) : canPiece[i] THEN {"countMissingBlocks"} ELSE {})
    \cup (IF Len(WantedPieces(0)) > 0 THEN {"priority"} ELSE {})

\* the mediator queries one iteration of the inner loop makes for block b
BlockQueries(b) ==
    {"clientCanRequestBlock"}
    \cup (IF canBlock[b] THEN {"countActiveRequests", "isEndgame"} ELSE {})
    \cup (IF canBlock[b] /\ Preempts(sequential, countActiveRequests(active, b))
          THEN {"getPeersForActiveRequests"} ELSE {})

\* next(n, p) up to the partial sort: the early return, or getCandidates
Call(n, p) ==
    /\ pc = "idle"
    /\ nWanted' = n
    /\ peer' = p
    /\ \E salts \in (IF EarlyReturn(n) \/ sequential
                     THEN {<<>>} ELSE SaltStreams(Len(WantedPieces(0)))) :
          /\ saltBuf' = salts
          /\ candidates' = IF EarlyReturn(n) THEN <<>> ELSE getCandidates(salts)
    /\ queries' = IF EarlyReturn(n) THEN {} ELSE CandidateQueries
    /\ pc' = IF EarlyReturn(n) THEN "done" ELSE IF sequential THEN "mine" ELSE "sort"
    /\ ci' = 1
    /\ blocks' = {}
    /\ result' = <<>>
    /\ cancels' = <<>>
    /\ UNCHANGED <<mediatorVars, active, blk, sorted_blocks, calls>>

\* std::partial_sort(begin, begin + middle, end)
PartialSort ==
    /\ pc = "sort"
    /\ \E out \in PartialSortOutcomes(candidates, Middle(Len(candidates))) :
          candidates' = out
    /\ pc' = "mine"
    /\ UNCHANGED <<mediatorVars, active, nWanted, peer, saltBuf, ci, blk, blocks,
                   sorted_blocks, result, queries, cancels, calls>>

\* the outer loop stopping one candidate short
MoreCandidatesShort == ci < Len(candidates) /\ ~HaveEnough(blocks, nWanted)

\* the outer loop goes on with candidate ci
MoreCandidates == ci <= Len(candidates) /\ ~HaveEnough(blocks, nWanted)

\* the inner loop without its test of the budget
MoreBlocksNoBudget == blk < blockSpan(candidates[ci].piece).end

\* the inner loop starting one block late
FirstBlockSkipped(span) == span.begin + 1

\* tr_block_index_t block = begin
FirstBlock(span) == span.begin

\* the inner loop goes on with block blk
MoreBlocks ==
    /\ blk < blockSpan(candidates[ci].piece).end
    /\ ~HaveEnough(blocks, nWanted)

\* the head of the outer loop: blockSpan(candidate.piece)
EnterPiece ==
    /\ pc = "mine"
    /\ MoreCandidates
    /\ blk' = FirstBlock(blockSpan(candidates[ci].piece))
    /\ queries' = queries \cup {"blockSpan"}
    /\ pc' = "walk"
    /\ UNCHANGED <<mediatorVars, active, nWanted, peer, saltBuf, candidates, ci, blocks,
                   sorted_blocks, result, cancels, calls>>

\* one iteration of the inner loop, for block blk
VisitBlock ==
    /\ pc = "walk"
    /\ MoreBlocks
    /\ LET victims == IF canBlock[blk] /\ Preempts(sequential, countActiveRequests(active, blk))
                      THEN cancelSlowRequest(active, blk, peer)
                      ELSE <<>>
           act == Cancelled(active, victims, blk)
           n_peers == Recount(active, act, blk)
       IN  /\ active' = act
           /\ cancels' = cancels \o Issued(victims, blk)
           /\ blocks' = IF canBlock[blk] /\ ~(n_peers >= MaxPeers(endgame))
                        THEN blocks \cup {blk} ELSE blocks
    /\ queries' = queries \cup BlockQueries(blk)
    /\ blk' = blk + 1
    /\ UNCHANGED <<mediatorVars, pc, nWanted, peer, saltBuf, candidates, ci,
                   sorted_blocks, result, calls>>

\* the inner loop ends: on to the next candidate
LeavePiece ==
    /\ pc = "walk"
    /\ ~MoreBlocks
    /\ ci' = ci + 1
    /\ pc' = "mine"
    /\ UNCHANGED <<mediatorVars, active, nWanted, peer, saltBuf, candidates, blk, blocks,
                   sorted_blocks, result, queries, cancels, calls>>

\* the outer loop ends: blocks_v is the set in ascending order
LoopExit ==
    /\ pc = "mine"
    /\ ~MoreCandidates
    /\ sorted_blocks' = SetToSortedSeq(blocks)
    /\ pc' = "pack"
    /\ UNCHANGED <<mediatorVars, active, nWanted, peer, saltBuf, candidates, ci, blk,
                   blocks, result, queries, cancels, calls>>

\* return makeSpans(std::data(blocks_v), std::size(blocks_v))
MakeSpans ==
    /\ pc = "pack"
    /\ result' = makeSpans(sorted_blocks)
    /\ pc' = "done"
    /\ UNCHANGED <<mediatorVars, active, nWanted, peer, saltBuf, candidates, ci, blk,
                   blocks, sorted_blocks, queries, cancels, calls>>

\* the caller takes the spans; the call frame is gone
Return ==
    /\ pc = "done"
    /\ pc' = "idle"
    /\ nWanted' = 0
    /\ peer' = NoPeer
    /\ saltBuf' = <<>>
    /\ candidates' = <<>>
    /\ ci' = 0
    /\ blk' = 0
    /\ blocks' = {}
    /\ sorted_blocks' = <<>>
    /\ result' = <<>>
    /\ queries' = {}
    /\ cancels' = <<>>
    /\ UNCHANGED <<mediatorVars, active, calls>>

\* cancelSlowRequest(mediator, 0, peer) called on its own, up to twice back-to-back
PreemptCall ==
    /\ pc = "preempt"
    /\ calls < 2
    /\ LET victims == cancelSlowRequest(active, 0, peer)
       IN  /\ active' = Cancelled(active, victims, 0)
           /\ cancels' = cancels \o Issued(victims, 0)
    /\ calls' = calls + 1
    /\ UNCHANGED <<mediatorVars, pc, nWanted, peer, saltBuf, candidates, ci, blk, blocks,
                   sorted_blocks, result, queries>>

Next ==
    \/ \E n \in 0..MaxWanted, p \in callers : Call(n, p)
    \/ PartialSort
    \/ EnterPiece
    \/ VisitBlock
    \/ LeavePiece
    \/ LoopExit
    \/ MakeSpans
    \/ Return

(* --------------------------- initial states --------------------------- *)

\* the frame of no call
NoFrame ==
    /\ nWanted = 0
    /\ peer = NoPeer
    /\ saltBuf = <<>>
    /\ candidates = <<>>
    /\ ci = 0
    /\ blk = 0
    /\ blocks = {}
    /\ sorted_blocks = <<>>
    /\ result = <<>>
    /\ queries = {}
    /\ cancels = <<>>
    /\ calls = 0

\* the functions on S that are v everywhere, or w at one point and v elsewhere
AllBut(S, v, w) == {[x \in S |-> v]} \cup {[x \in S |-> IF x = h THEN w ELSE v] : h \in S}

\* the peers' measured speeds in the small torrents, bytes per second
TypedSpeed == [p \in Peers |-> IF p = "p1" THEN 1000 ELSE IF p = "p2" THEN 10000 ELSE 0]

\* a request peer p holds since age seconds before time t
Holder(p, t, age) == [peer |-> p, when |-> t - age]

\* the lists of holders a block may have at time t: one holder, young or old,
\* or two young ones
HolderLists(t) ==
    {<<Holder(p, t, a)>> : p \in Peers, a \in {1, 20}}
    \cup {<<Holder(pq[1], t, 1), Holder(pq[2], t, 1)>> :
             pq \in {x \in Peers \X Peers : x[1] # x[2]}}

\* one short list per number of holders
CountLists(t) == {<<Holder("p1", t, 1)>>, <<Holder("p1", t, 1), Holder("p3", t, 1)>>}

\* no block has a request, or one block has the holders of one of the lists
OneBusy(B, lists) ==
    {[b \in B |-> <<>>]} \cup {[b \in B |-> IF b = h THEN l ELSE <<>>] : h \in B, l \in lists}

\* two neighbouring blocks have holders
TwoBusy(B, lists) ==
    {[b \in B |-> IF b = h THEN l1 ELSE IF b = h - 1 THEN l2 ELSE <<>>] :
        h \in B \ {MinOf(B)}, l1 \in lists, l2 \in lists}

\* the functions on S that are v everywhere, or w at h and v elsewhere
AllOrBut(S, h, v, w) == {[x \in S |-> v], [x \in S |-> IF x = h THEN w ELSE v]}

\* the mediator of a torrent of n pieces, in one of the modes
Modes(n, seq, eg, from) ==
    /\ nPieces = n
    /\ spanLen = BlocksPerPiece
    /\ sequential = seq
    /\ endgame = eg
    /\ fromPiece = from
    /\ now = 50000

\* that torrent with the typed peers, no call of next() under way
Torrent(n, seq, eg, from) ==
    /\ Modes(n, seq, eg, from)
    /\ speed = TypedSpeed
    /\ pc = "idle"
    /\ NoFrame

\* normal mode: which pieces are wanted, how many blocks they miss, priorities
InitOrder ==
    /\ Torrent(MaxPieces, FALSE, FALSE, 0)
    /\ callers = {"p2"}
    /\ canPiece \in AllBut(PieceIds(MaxPieces), TRUE, FALSE)
    /\ missing \in AllBut(PieceIds(MaxPieces), 1, 2) \cup AllBut(PieceIds(MaxPieces), 1, 0)
    /\ prio \in AllBut(PieceIds(MaxPieces), 0, 1)
    /\ canBlock = [b \in BlockIds(MaxPieces) |-> TRUE]
    /\ active = [b \in BlockIds(MaxPieces) |-> <<>>]

\* normal and endgame mode: which blocks can be requested and which have requests
InitEligible ==
    /\ \E eg \in BOOLEAN : Torrent(MaxPieces, FALSE, eg, 0)
    /\ callers = {"p2"}
    /\ canPiece \in AllOrBut(PieceIds(MaxPieces), 1, TRUE, FALSE)
    /\ missing = [p \in PieceIds(MaxPieces) |-> 1]
    /\ prio = [p \in PieceIds(MaxPieces) |-> 0]
    /\ canBlock \in AllBut(BlockIds(MaxPieces), TRUE, FALSE)
    /\ active \in OneBusy(BlockIds(MaxPieces), CountLists(50000))

\* sequential mode: the origin and the wanted pieces
InitRotate ==
    /\ \E from \in 0..MaxPieces : Torrent(MaxPieces, TRUE, FALSE, from)
    /\ callers = {"p2"}
    /\ canPiece \in AllBut(PieceIds(MaxPieces), TRUE, FALSE)
    /\ missing \in AllBut(PieceIds(MaxPieces), 1, 2) \cup AllBut(PieceIds(MaxPieces), 1, 0)
    /\ prio \in AllOrBut(PieceIds(MaxPieces), MaxPieces - 1, 0, 1)
    /\ canBlock = [b \in BlockIds(MaxPieces) |-> TRUE]
    /\ active = [b \in BlockIds(MaxPieces) |-> <<>>]

\* sequential mode: blocks with requests that may be preempted
InitContested ==
    /\ \E eg \in BOOLEAN, from \in 0..1 : Torrent(MaxPieces, TRUE, eg, from)
    /\ callers = Peers
    /\ canPiece = [p \in PieceIds(MaxPieces) |-> TRUE]
    /\ missing = [p \in PieceIds(MaxPieces) |-> 1]
    /\ prio = [p \in PieceIds(MaxPieces) |-> 0]
    /\ canBlock \in AllOrBut(BlockIds(MaxPieces), 0, TRUE, FALSE)
    /\ active \in OneBusy(BlockIds(MaxPieces), HolderLists(50000))
                  \cup TwoBusy(BlockIds(MaxPieces), CountLists(50000))

\* normal mode, more candidates than partial_sort orders
InitHorizon ==
    /\ \E n \in (MaxSortedPieces + 1)..(MaxSortedPieces + HorizonExtra) :
          /\ Torrent(n, FALSE, FALSE, 0)
          /\ canPiece = [p \in PieceIds(n) |-> TRUE]
          /\ missing \in {[p \in PieceIds(n) |-> IF p = h THEN 2 ELSE 1] : h \in {-1, 0, n - 1}}
          /\ prio \in {[p \in PieceIds(n) |-> IF p = h THEN 1 ELSE 0] : h \in {-1, 0, n - 1}}
          /\ canBlock = [b \in BlockIds(n) |-> TRUE]
          /\ active = [b \in BlockIds(n) |-> <<>>]
    /\ callers = {"p2"}

\* a torrent of no pieces
InitEmpty ==
    /\ \E seq \in BOOLEAN : Torrent(0, seq, FALSE, 0)
    /\ callers = {"p2"}
    /\ canPiece = <<>>
    /\ missing = <<>>
    /\ prio = <<>>
    /\ canBlock = <<>>
    /\ active = <<>>

\* three pieces of four blocks missing 3, 1 and 2 blocks, everything free
InitPartialFill ==
    /\ nPieces = 3
    /\ spanLen = 4
    /\ sequential = FALSE
    /\ endgame = FALSE
    /\ fromPiece = 0
    /\ now = 50000
    /\ speed = TypedSpeed
    /\ pc = "idle"
    /\ NoFrame
    /\ callers = {"p2"}
    /\ canPiece = [p \in PieceIds(3) |-> TRUE]
    /\ missing = [p \in PieceIds(3) |-> IF p = 0 THEN 3 ELSE IF p = 1 THEN 1 ELSE 2]
    /\ prio = [p \in PieceIds(3) |-> 0]
    /\ canBlock = [b \in BlockIds(3) |-> TRUE]
    /\ active = [b \in BlockIds(3) |-> <<>>]

\* sequential mode: five wanted pieces, the origin at piece 2
InitFiveWanted ==
    /\ Torrent(5, TRUE, FALSE, 2)
    /\ callers = {"p2"}
    /\ canPiece = [p \in PieceIds(5) |-> TRUE]
    /\ missing \in AllOrBut(PieceIds(5), 3, 1, 2)
    /\ prio \in AllOrBut(PieceIds(5), 4, 0, 1)
    /\ canBlock = [b \in BlockIds(5) |-> TRUE]
    /\ active = [b \in BlockIds(5) |-> <<>>]

Init ==
    \/ InitPartialFill
    \/ InitFiveWanted
    \/ InitOrder
    \/ InitEligible
    \/ InitRotate
    \/ InitContested
    \/ InitHorizon
    \/ InitEmpty

Spec == Init /\ [][Next]_vars

(* ------------------- makeSpans on every ascending input --------------- *)

\* the strictly ascending sequences of block indices up to MaxPackBlock
AscendingInputs == {SetToSortedSeq(S) : S \in SUBSET (0..MaxPackBlock)}

\* a torrent of one piece whose blocks are all wanted and free
OnePiece(seq, eg) ==
    /\ Modes(1, seq, eg, 0)
    /\ canPiece = [p \in PieceIds(1) |-> TRUE]
    /\ missing = [p \in PieceIds(1) |-> BlocksPerPiece]
    /\ prio = [p \in PieceIds(1) |-> 0]
    /\ canBlock = [b \in BlockIds(1) |-> TRUE]

InitSpans ==
    /\ OnePiece(FALSE, FALSE)
    /\ active = [b \in BlockIds(1) |-> <<>>]
    /\ speed = TypedSpeed
    /\ callers = {"p2"}
    /\ pc = "pack"
    /\ sorted_blocks \in AscendingInputs
    /\ blocks = Range(sorted_blocks)
    /\ nWanted = Len(sorted_blocks)
    /\ peer = "p2"
    /\ saltBuf = <<>>
    /\ candidates = <<>>
    /\ ci = 0
    /\ blk = 0
    /\ result = <<>>
    /\ queries = {}
    /\ cancels = <<>>
    /\ calls = 0

NextSpans == MakeSpans

SpecSpans == InitSpans /\ [][NextSpans]_vars

(* --------------- cancelSlowRequest called back-to-back ---------------- *)

\* the speeds a peer may be measured at, bytes per second
Speeds == {0, 1000, 1200, 10000, 1000000000}

\* the lists of up to three holders, each peer at most once, young, old or
\* stale
AllHolderLists(t) ==
    LET H == {Holder(p, t, a) : p \in Peers, a \in {1, 20, 40000}}
        distinct(l) == \A i \in 1..Len(l), j \in 1..Len(l) : i # j => l[i].peer # l[j].peer
    IN  {<<>>} \cup {<<h>> : h \in H}
        \cup {l \in H \X H : distinct(l)}
        \cup {l \in H \X H \X H : distinct(l)}

InitPreempt ==
    /\ \E eg \in BOOLEAN : OnePiece(TRUE, eg)
    /\ \E l \in AllHolderLists(50000) :
          active = [b \in BlockIds(1) |-> IF b = 0 THEN l ELSE <<>>]
    /\ speed \in [Peers -> Speeds]
    /\ callers = Peers
    /\ pc = "preempt"
    /\ peer \in Peers
    /\ nWanted = 1
    /\ saltBuf = <<>>
    /\ candidates = <<>>
    /\ ci = 0
    /\ blk = 0
    /\ blocks = {}
    /\ sorted_blocks = <<>>
    /\ result = <<>>
    /\ queries = {}
    /\ cancels = <<>>
    /\ calls = 0

NextPreempt == PreemptCall

SpecPreempt == InitPreempt /\ [][NextPreempt]_vars

(* ------------------ Candidate::compare on every triple ---------------- *)

\* the candidates compared: each number of missing blocks, each priority, two
\* salts
Comparands ==
    {[piece |-> 0, n_blocks_missing |-> m, priority |-> q, salt |-> z] :
        m \in 1..BlocksPerPiece, q \in {-1, 0, 1}, z \in 0..1}

InitCompare ==
    /\ OnePiece(FALSE, FALSE)
    /\ active = [b \in BlockIds(1) |-> <<>>]
    /\ speed = TypedSpeed
    /\ callers = {"p2"}
    /\ pc = "compare"
    /\ candidates \in Comparands \X Comparands \X Comparands
    /\ nWanted = 0
    /\ peer = NoPeer
    /\ saltBuf = <<>>
    /\ ci = 0
    /\ blk = 0
    /\ blocks = {}
    /\ sorted_blocks = <<>>
    /\ result = <<>>
    /\ queries = {}
    /\ cancels = <<>>
    /\ calls = 0

\* compare() called on every pair of the three candidates
Compare ==
    /\ pc = "compare"
    /\ result' = [i \in 1..3 |-> [j \in 1..3 |-> compare(candidates[i], candidates[j])]]
    /\ pc' = "compared"
    /\ UNCHANGED <<mediatorVars, active, nWanted, peer, saltBuf, candidates, ci, blk,
                   blocks, sorted_blocks, queries, cancels, calls>>

NextCompare == Compare

SpecCompare == InitCompare /\ [][NextCompare]_vars

(* ------------------------------ claims -------------------------------- *)

\* the block indices a span list covers
Covered(spans) == UNION {spans[i].begin..(spans[i].end - 1) : i \in 1..Len(spans)}

\* the number of block indices a span list covers, span by span
RECURSIVE CoveredCount(_)
CoveredCount(spans) ==
    IF spans = <<>> THEN 0
    ELSE (Head(spans).end - Head(spans).begin) + CoveredCount(Tail(spans))

\* the expansion of a span list: each [begin, end) in order
RECURSIVE Expand(_)
Expand(spans) ==
    IF spans = <<>> THEN <<>>
    ELSE [i \in 1..(Head(spans).end - Head(spans).begin) |-> Head(spans).begin + i - 1]
         \o Expand(Tail(spans))

\* max_peers as the specification states it
SpecMaxPeers == IF endgame THEN 2 ELSE 1

\* the blocks of the pieces that are wanted: requestable, with a missing block
InWantedPiece(b) ==
    \E p \in PieceIds(nPieces) :
        /\ canPiece[p]
        /\ missing[p] > 0
        /\ b >= blockSpan(p).begin
        /\ b < blockSpan(p).end

\* C1: the spans next(n_wanted, peer) returns cover at most n_wanted block
\* indices in total.
C1_AtMostWanted == pc = "done" => CoveredCount(result) <= nWanted

\* a call that stopped at n_wanted blocks with candidates left unvisited
C1_Witness ==
    /\ pc = "done"
    /\ nWanted = 3
    /\ CoveredCount(result) = 3
    /\ ci < Len(candidates)

\* C2: a block enters the picked set only when, after any preemption for it in
\* the same iteration, its number of active requests is below max_peers (2 in
\* endgame, 1 otherwise).
C2_BelowMaxPeers ==
    [][\A b \in blocks' \ blocks : countActiveRequests(active', b) < SpecMaxPeers]_vars

\* endgame: a block picked with one request in flight, another skipped with two
C2_Witness ==
    /\ pc = "done"
    /\ endgame
    /\ \E b \in blocks : countActiveRequests(active, b) = 1
    /\ \E b \in BlockIds(nPieces) : countActiveRequests(active, b) = 2 /\ b \notin blocks

\* C3: every returned block can be requested and lies in the block span of a
\* piece that can be requested and has missing blocks.
C3_ReturnedEligible ==
    pc = "done" => \A b \in Covered(result) : canBlock[b] /\ InWantedPiece(b)

\* blocks returned while a complete piece and an unrequestable block were left out
C3_Witness ==
    /\ pc = "done"
    /\ Covered(result) # {}
    /\ CoveredCount(result) < nWanted
    /\ \/ \E p \in PieceIds(nPieces) : canPiece[p] /\ missing[p] = 0
       \/ \E b \in BlockIds(nPieces) : ~canBlock[b] /\ InWantedPiece(b)

\* C4: when next() returns fewer than n_wanted blocks, every block of a wanted
\* piece that can be requested and has fewer than max_peers active requests at
\* the end of the call is among the returned blocks.
C4_NothingLeft ==
    (pc = "done" /\ CoveredCount(result) < nWanted) =>
        \A b \in BlockIds(nPieces) :
            (InWantedPiece(b) /\ canBlock[b] /\ countActiveRequests(active, b) < SpecMaxPeers)
                => b \in Covered(result)

\* fewer blocks than wanted came back, some were left out as contested
C4_Witness ==
    /\ pc = "done"
    /\ CoveredCount(result) < nWanted
    /\ Covered(result) # {}
    /\ \E b \in BlockIds(nPieces) :
          canBlock[b] /\ countActiveRequests(active, b) >= SpecMaxPeers

\* the spans ascend, none is empty, consecutive ones leave a gap
WellFormedSpans(spans) ==
    /\ \A i \in 1..Len(spans) : spans[i].begin < spans[i].end
    /\ \A i \in 1..(Len(spans) - 1) : spans[i + 1].begin > spans[i].end

\* C5: the span list next() returns is ascending by begin, every span has
\* begin < end, and consecutive spans are disjoint and not adjacent.
C5_SpansWellFormed == pc = "done" => WellFormedSpans(result)

\* two spans came back, one of them a merged run
C5_Witness ==
    /\ pc = "done"
    /\ Len(result) = 2
    /\ \E i \in 1..2 : result[i].end - result[i].begin >= 2

\* C6: packing a strictly ascending sequence of block indices into spans and
\* expanding the spans in order gives the sequence back.
C6_PackExpand == pc = "done" => Expand(result) = sorted_blocks

\* an input of a run and a single block, packed into two spans
C6_Witness ==
    /\ pc = "done"
    /\ Len(sorted_blocks) = 4
    /\ Len(result) = 2

\* the call has built its candidate vector and ordered it
Ordered == pc \in {"mine", "walk", "pack", "done"} /\ ~EarlyReturn(nWanted)

\* C7: in sequential mode with 0 < origin < number of wanted pieces, the first
\* candidate next() considers is the piece whose index is origin.
C7_FirstIsOrigin ==
    (Ordered /\ sequential /\ fromPiece > 0 /\ fromPiece < Len(WantedPieces(0)))
        => candidates[1].piece = fromPiece

\* C8 as stated: two back-to-back calls of the preemption routine for one block
\* and one new peer issue at most one cancellation in total.
C8_AtMostOneInTotal == Len(cancels) <= 1

\* C8 amended: each of the two calls issues at most one cancellation, a second
\* cancellation never targets the holder the first one cancelled, and if the
\* first call cancels nothing the second cancels nothing either.
C8_OnePerCall ==
    [][pc = "preempt" =>
        /\ Len(cancels') <= Len(cancels) + 1
        /\ \A i \in 1..Len(cancels), j \in (Len(cancels) + 1)..Len(cancels') :
              cancels'[j] # cancels[i]
        /\ (calls = 1 /\ cancels = <<>>) => cancels' = <<>>]_vars

\* both calls cancelled: the block had two holders above the threshold
C8_Witness ==
    /\ pc = "preempt"
    /\ calls = 2
    /\ Len(cancels) = 2
    /\ Len(active[0]) = 1

\* a strictly precedes b in the order of the specification: fewer missing
\* blocks, then higher priority, then smaller salt
SpecBefore(a, b) ==
    \/ a.n_blocks_missing < b.n_blocks_missing
    \/ a.n_blocks_missing = b.n_blocks_missing /\ a.priority > b.priority
    \/ a.n_blocks_missing = b.n_blocks_missing /\ a.priority = b.priority /\ a.salt < b.salt

\* C9: in non-sequential mode the candidates at the first min(30, len)
\* positions are in the candidate order relative to each other, and none of
\* them is greater in that order than a candidate at a later position.
C9_SortedHorizon ==
    (Ordered /\ ~sequential) =>
        \A i \in 1..Min(30, Len(candidates)), j \in 1..Len(candidates) :
            i < j => ~SpecBefore(candidates[j], candidates[i])

\* more than 30 candidates: the piece that was first in piece order, missing
\* the most blocks, has been moved behind the horizon
C9_Witness ==
    /\ Ordered
    /\ ~sequential
    /\ Len(candidates) > 30
    /\ candidates[Len(candidates)].piece = 0
    /\ candidates[1].piece = nPieces - 1

\* C10: next(0, peer) returns the empty span list, makes no mediator query and
\* cancels nothing.
C10_EmptyRequest ==
    [][(pc = "idle" /\ pc' # "idle" /\ nWanted' = 0) =>
        /\ pc' = "done"
        /\ result' = <<>>
        /\ queries' = {}
        /\ cancels' = <<>>
        /\ active' = active]_vars

\* next(0, peer) returned in sequential mode, for a peer that would have
\* preempted the request of a block
C10_Witness ==
    /\ pc = "done"
    /\ nWanted = 0
    /\ result = <<>>
    /\ sequential
    /\ \E b \in BlockIds(nPieces) : canBlock[b] /\ cancelSlowRequest(active, b, peer) # <<>>

\* C11: when sequential download is off, a call of next() cancels nothing: the
\* active requests of every block are the same after each of its steps as
\* before, in endgame and in normal mode.
C11_NoCancelOutsideSequential ==
    [][~sequential => (active' = active /\ cancels' = <<>>)]_vars

\* a call outside sequential mode went over every candidate block, one of them
\* held by a peer the caller would have preempted
C11_Witness ==
    /\ pc = "done"
    /\ ~sequential
    /\ CoveredCount(result) < nWanted
    /\ \E b \in BlockIds(nPieces) :
          canBlock[b] /\ InWantedPiece(b) /\ cancelSlowRequest(active, b, peer) # <<>>

\* C12: in sequential mode outside endgame, when the inner loop reaches a
\* requestable block with exactly one active request and the preemption cancels
\* it, the count read again in the same iteration is 0 and the block is picked,
\* the picked set changing by that block only; every block whose only request
\* the call cancelled is in the spans the call returns.
C12_PreemptedIsPicked ==
    /\ [][(pc = "walk" /\ sequential /\ ~endgame /\ cancels' # cancels
            /\ countActiveRequests(active, blk) = 1) =>
              /\ canBlock[blk]
              /\ countActiveRequests(active', blk) = 0
              /\ blk \notin blocks
              /\ blocks' = blocks \cup {blk}]_vars
    /\ []((pc = "done" /\ sequential /\ ~endgame) =>
            \A i \in 1..Len(cancels) :
                countActiveRequests(active, cancels[i][2]) = 0
                    => cancels[i][2] \in Covered(result))

\* a call returned the block whose single slow request it had cancelled
C12_Witness ==
    /\ pc = "done"
    /\ sequential
    /\ ~endgame
    /\ Len(cancels) = 1
    /\ active[cancels[1][2]] = <<>>
    /\ cancels[1][2] \in Covered(result)

\* the position in l of the first holder of nonzero speed whose score for the
\* new peer p exceeds the threshold, 0 if there is none
FirstSlow(l, p) ==
    LET S == {i \in 1..Len(l) :
                /\ speed[l[i].peer] # 0
                /\ IsSlow(Score(speed[p], speed[l[i].peer], now, l[i].when))}
    IN  IF S = {} THEN 0 ELSE MinOf(S)

\* C13: one call of the preemption routine issues at most one cancellation and
\* none when the new peer's speed is 0; it goes through the holders of the
\* block in list order, passes over holders of speed 0 without stopping, and
\* cancels exactly the first holder whose score exceeds the threshold, the
\* other holders keeping their requests.
C13_FirstSlowOnly ==
    [][pc = "preempt" =>
        LET l == active[0]
            k == IF speed[peer] = 0 THEN 0 ELSE FirstSlow(l, peer)
        IN  IF k = 0
            THEN cancels' = cancels /\ active' = active
            ELSE cancels' = Append(cancels, <<l[k].peer, 0>>)]_vars

\* one call cancelled one holder; a holder of speed 0 stands first in the list
\* and another holder kept its request
C13_Witness ==
    /\ pc = "preempt"
    /\ calls = 1
    /\ Len(cancels) = 1
    /\ Len(active[0]) = 2
    /\ speed[active[0][1].peer] = 0
    /\ speed[cancels[1][1]] # 0

\* floor(v_new / v_cur) - floor(age * v_new / BlockSize) >= 2 over the
\* integers; from age = BlockSize on the second term is at least v_new, and
\* the score at most 0
SpecOverThreshold(v_new, v_cur, age) ==
    /\ age < BlockSize
    /\ (v_new \div v_cur)
         - (age * (v_new \div BlockSize) + ((age * (v_new % BlockSize)) \div BlockSize)) >= 2

\* the first holder of nonzero speed over that threshold, 0 if there is none
SpecFirstSlow(l, p) ==
    LET S == {i \in 1..Len(l) :
                /\ speed[l[i].peer] # 0
                /\ SpecOverThreshold(speed[p], speed[l[i].peer], now - l[i].when)}
    IN  IF S = {} THEN 0 ELSE MinOf(S)

\* C14: with a request age that is not negative and positive speeds, the
\* preemption cancels a holder exactly when floor(v_new / v_cur)
\* - floor((now - t) * v_new / BlockSize) >= 2, and never when
\* v_new < 2 * v_cur.
C14_ExactThreshold ==
    [][(pc = "preempt" /\ speed[peer] > 0) =>
        LET l == active[0]
            k == SpecFirstSlow(l, peer)
        IN  /\ IF k = 0 THEN cancels' = cancels
                ELSE cancels' = Append(cancels, <<l[k].peer, 0>>)
            /\ \A j \in (Len(cancels) + 1)..Len(cancels') :
                  speed[peer] >= 2 * speed[cancels'[j][1]]]_vars

\* C20: the preemption never cancels a request the requesting peer itself
\* holds, whatever its speed.
C20_OwnRequestKept ==
    [][pc = "preempt" =>
        \A j \in (Len(cancels) + 1)..Len(cancels') : cancels'[j][1] # peer]_vars

\* the blocks of the candidates from index i on, in the order the loops of
\* next() go through them
RECURSIVE Enumeration(_, _)
Enumeration(c, i) ==
    IF i > Len(c) THEN <<>>
    ELSE LET span == blockSpan(c[i].piece)
         IN  [k \in 1..(span.end - span.begin) |-> span.begin + k - 1]
             \o Enumeration(c, i + 1)

\* the first n elements of s, all of s if it is shorter
FirstN(s, n) == SubSeq(s, 1, Min(n, Len(s)))

\* block b passes the checks of eligibility and of duplication
Passes(b) == canBlock[b] /\ countActiveRequests(active, b) < SpecMaxPeers

\* C15: blocks are mined greedily in processing order: the returned blocks
\* are exactly the first n_wanted blocks that pass the checks of eligibility
\* and duplication, taking the candidates in their order and inside each
\* candidate the blocks in ascending order.
C15_GreedyPrefix ==
    pc = "done" =>
        Covered(result) = Range(FirstN(SelectSeq(Enumeration(candidates, 1), Passes), nWanted))

\* three pieces of four blocks missing 3, 1 and 2 blocks, five blocks wanted:
\* blocks 4 to 8 come back as one span
C15_Witness ==
    /\ pc = "done"
    /\ nPieces = 3
    /\ spanLen = 4
    /\ nWanted = 5
    /\ missing[0] = 3
    /\ result = <<[begin |-> 4, end |-> 9]>>

\* C16: compare is a strict weak ordering, total on distinct (missing,
\* priority, salt) triples: a < b is irreflexive, asymmetric and transitive,
\* compare(a, b) = -compare(b, a), equivalence is transitive, and a < b exactly
\* when a has fewer missing blocks, or as many and a higher priority, or both
\* equal and a smaller salt.
C16_StrictWeakOrder ==
    pc = "compared" =>
        /\ \A i \in 1..3 : result[i][i] = 0
        /\ \A i \in 1..3, j \in 1..3 :
              /\ result[i][j] \in {-1, 0, 1}
              /\ result[i][j] = -result[j][i]
              /\ (result[i][j] < 0) = SpecBefore(candidates[i], candidates[j])
              /\ (result[i][j] = 0) =
                    /\ candidates[i].n_blocks_missing = candidates[j].n_blocks_missing
                    /\ candidates[i].priority = candidates[j].priority
                    /\ candidates[i].salt = candidates[j].salt
        /\ \A i \in 1..3, j \in 1..3, k \in 1..3 :
              /\ (result[i][j] < 0 /\ result[j][k] < 0) => result[i][k] < 0
              /\ (result[i][j] = 0 /\ result[j][k] = 0) => result[i][k] = 0

\* three candidates compared: the first two differ in priority only, the
\* last two in salt only
C16_Witness ==
    /\ pc = "compared"
    /\ candidates[1].n_blocks_missing = candidates[3].n_blocks_missing
    /\ candidates[1].priority > candidates[2].priority
    /\ candidates[2].priority = candidates[3].priority
    /\ candidates[2].salt < candidates[3].salt
    /\ result[1][2] = -1
    /\ result[2][3] = -1
    /\ result[3][1] = 1

\* the wanted pieces in ascending order of their index
SpecWanted ==
    SetToSortedSeq({p \in PieceIds(nPieces) : canPiece[p] /\ missing[p] > 0})

C18_OnePerWantedPiece ==
    (pc \in {"sort", "mine", "walk", "pack", "done"} /\ ~EarlyReturn(nWanted)) =>
        LET wanted == {p \in PieceIds(nPieces) : canPiece[p] /\ missing[p] > 0}
        IN  /\ Len(candidates) = Cardinality(wanted)
            /\ {candidates[i].piece : i \in 1..Len(candidates)} = wanted
            /\ \A i \in 1..Len(candidates) :
                  /\ candidates[i].n_blocks_missing = missing[candidates[i].piece]
                  /\ candidates[i].n_blocks_missing > 0
                  /\ candidates[i].priority = prio[candidates[i].piece]

\* two of three pieces are candidates, out of piece order after the sort
C18_Witness ==
    /\ Ordered
    /\ ~sequential
    /\ nPieces = MaxPieces
    /\ Len(candidates) = MaxPieces - 1
    /\ \E p \in PieceIds(nPieces) : canPiece[p] /\ missing[p] = 0
    /\ candidates[1].piece > candidates[2].piece

\* C19: every cancellation a call of next() issues is issued in sequential
\* mode, one at a time, for the block the inner loop is at; its target held an
\* active request for that block, the block can be requested and lies in a
\* candidate piece, fewer than n_wanted blocks were picked when it was reached,
\* and the call has issued no cancellation for that block before.
C19_CancelsInBudget ==
    [][(cancels' # cancels /\ cancels' # <<>>) =>
        /\ pc = "walk"
        /\ sequential
        /\ cancels' = Append(cancels, <<cancels'[Len(cancels')][1], blk>>)
        /\ \E i \in 1..Len(active[blk]) : active[blk][i].peer = cancels'[Len(cancels')][1]
        /\ canBlock[blk]
        /\ InWantedPiece(blk)
        /\ \E i \in 1..Len(candidates) :
              /\ blk >= blockSpan(candidates[i].piece).begin
              /\ blk < blockSpan(candidates[i].piece).end
        /\ Cardinality(blocks) < nWanted
        /\ \A i \in 1..Len(cancels) : cancels[i][2] # blk]_vars

\* one call cancelled the requests of two different blocks
C19_Witness ==
    /\ pc = "done"
    /\ sequential
    /\ Len(cancels) = 2
    /\ cancels[1][2] # cancels[2][2]
    /\ Cardinality(blocks) = nWanted

====
